---- MODULE Spec2Model ----
(***************************************************************************)
(* Model of the two command-line tools of ai-repo-feedback:                *)
(*   send-mail.py  (Mail Sender Tool)    -- specification Spec             *)
(*   query-ai.py   (Prompt Query Tool)   -- specification SpecQuery        *)
(* Each tool is a sequential process; pc / q_pc is its position in the     *)
(* script.  Everything the process does to the outside world (reading      *)
(* stdin, opening a file, an SMTP call, an API request) is appended to a   *)
(* trace so that orderings and counts can be stated as state predicates.   *)
(***************************************************************************)
EXTENDS Integers, Sequences, FiniteSets, TLC

VARIABLES
    \* ---- send-mail.py ----
    pc,           \* position of the process in send-mail.py
    environ,      \* names of the SMTP_* variables present in os.environ
    fs,           \* file system: path -> bytes, or Missing
    argv,         \* the command line as given (raw, before validation)
    args,         \* the argparse namespace returned by parse_arguments
    content,      \* main: text read from standard input
    destination,  \* send_mail: envelope recipient list
    msg,          \* send_mail: the MIMEMultipart message under construction
    att_i,        \* send_mail: index of the attachment loop
    conn,         \* state of the SMTP connection object
    pending,      \* exception in flight while the finally clause runs
    sent,         \* arguments of every conn.sendmail call made
    trace,        \* I/O events of the process, in order
    exit_status,  \* process exit status, NoStatus while running
    stderr,       \* diagnostic written on termination
    \* ---- query-ai.py ----
    q_pc,         \* position of the process in query-ai.py
    q_argv,       \* command line as given
    q_args,       \* argparse namespace
    q_stdin,      \* text available on standard input
    user_prompt,  \* __main__: stripped prompt
    requests,     \* every chat.completions.create request issued
    completion,   \* choices of the completion returned by the API
    response,     \* __main__: value returned by query_openai
    stdout,       \* text printed
    q_exit        \* process exit status, NoStatus while running

mail_vars == <<pc, environ, fs, argv, args, content, destination, msg, att_i,
               conn, pending, sent, trace, exit_status, stderr>>
query_vars == <<q_pc, q_argv, q_args, q_stdin, user_prompt, requests,
                completion, response, stdout, q_exit>>
vars == <<mail_vars, query_vars>>

----------------------------------------------------------------------------
(* Bounds *)

MaxCc == 2
MaxAttach == 2
MaxPromptLen == 3
MaxChoices == 2

----------------------------------------------------------------------------
(* Values *)

None == "None"
NoStatus == 0 - 1
Missing == <<0 - 1>>

EnvLookupOrder == <<"SMTP_SERVER", "SMTP_USERNAME", "SMTP_PASSWORD">>
EnvNames == {EnvLookupOrder[i] : i \in 1..Len(EnvLookupOrder)}

Paths == {"file.bin", "dir/b.bin"}
FileContents == {<<>>, <<77>>, <<255, 0>>, <<1, 2, 254>>}

\* standard input of send-mail.py, as code points: "", "hello", "e-acute LF"
StdinTexts == {<<>>, <<104, 101, 108, 108, 111>>, <<233, 10>>}

CcEmailPool == <<"c1@x", "c2@x", "c3@x", "c4@x">>
CcNamePool == <<"N1", "N2", "N3", "N4">>

SeqsUpTo(S, n) == UNION {[1..k -> S] : k \in 0..n}

NoArgs == [from_email |-> "", from_name |-> "", to_email |-> "",
           to_name |-> None, subject |-> "", attachment |-> <<>>,
           content_type |-> "", cc_email |-> <<>>, cc_name |-> <<>>]
NoArgv == [required |-> FALSE, to_name |-> None, attachment |-> <<>>,
           content_type |-> None, cc_email |-> <<>>, cc_name |-> <<>>]
NoMsg == [headers |-> <<>>, parts |-> <<>>]

----------------------------------------------------------------------------
(* Library functions the scripts call, modelled by what they compute *)

\* str(Header(name, 'utf-8')): the display name as text; None gives ''
HeaderStr(name) == IF name = None THEN "" ELSE name

\* email.utils.formataddr((name, address)): 'name <address>', or the bare
\* address when the name is empty.  A string is a sequence of tokens.
formataddr(name, address) ==
    IF name = "" THEN <<address>> ELSE <<name, " <", address, ">">>

\* sep.join(items), items being token sequences
RECURSIVE Join(_, _)
Join(items, sep) ==
    IF Len(items) = 0 THEN <<>>
    ELSE IF Len(items) = 1 THEN items[1]
    ELSE items[1] \o <<sep>> \o Join(Tail(items), sep)

\* zip(a, b): pairs up to the shorter of the two
Zip(a, b) ==
    LET n == IF Len(a) < Len(b) THEN Len(a) ELSE Len(b)
    IN  [i \in 1..n |-> <<a[i], b[i]>>]

\* str.encode('utf-8') for code points below 2048
RECURSIVE Utf8Encode(_)
Utf8Encode(cps) ==
    IF cps = <<>> THEN <<>>
    ELSE LET c == Head(cps)
         IN  (IF c < 128 THEN <<c>>
              ELSE <<192 + (c \div 64), 128 + (c % 64)>>)
             \o Utf8Encode(Tail(cps))

Pad == 64
\* base64 of a byte string: sextets, padded with Pad to a multiple of four
RECURSIVE Base64Encode(_)
Base64Encode(bytes) ==
    IF Len(bytes) = 0 THEN <<>>
    ELSE IF Len(bytes) = 1 THEN
        <<bytes[1] \div 4, (bytes[1] % 4) * 16, Pad, Pad>>
    ELSE IF Len(bytes) = 2 THEN
        <<bytes[1] \div 4, (bytes[1] % 4) * 16 + (bytes[2] \div 16),
          (bytes[2] % 16) * 4, Pad>>
    ELSE
        <<bytes[1] \div 4, (bytes[1] % 4) * 16 + (bytes[2] \div 16),
          (bytes[2] % 16) * 4 + (bytes[3] \div 64), bytes[3] % 64>>
        \o Base64Encode(SubSeq(bytes, 4, Len(bytes)))

\* MIMEText(content, subtype, 'utf-8'): a text part whose payload is the
\* base64 of the UTF-8 encoding of the text
MIMEText(text, subtype, charset) ==
    [content_type |-> <<"text", subtype>>, charset |-> charset,
     cte |-> "base64", payload |-> Base64Encode(Utf8Encode(text)),
     disposition |-> <<>>]

\* faulty variant: the payload is left as raw bytes (encode_base64 omitted)
AttachmentPartNotEncoded(attachment_name, bytes) ==
    [content_type |-> <<"application", "octet-stream">>, charset |-> "",
     cte |-> "base64", payload |-> bytes,
     disposition |-> <<"attachment; filename=", attachment_name>>]

\* MIMEBase('application', 'octet-stream'), set_payload(bytes),
\* encode_base64, add_header('Content-Disposition', 'attachment; filename=..')
AttachmentPart(attachment_name, bytes) ==
    [content_type |-> <<"application", "octet-stream">>, charset |-> "",
     cte |-> "base64", payload |-> Base64Encode(bytes),
     disposition |-> <<"attachment; filename=", attachment_name>>]

----------------------------------------------------------------------------
(* send-mail.py *)

Ev(op, arg, ok) == [op |-> op, arg |-> arg, ok |-> ok]

\* the process terminates with this status and this diagnostic on stderr
Exit(status, diag) ==
    /\ pc' = "exit"
    /\ exit_status' = status
    /\ stderr' = diag

\* command lines: the four required options given or not, and the optional ones
Argvs ==
    {[required |-> TRUE, to_name |-> tn, attachment |-> att,
      content_type |-> ct, cc_email |-> SubSeq(CcEmailPool, 1, k),
      cc_name |-> SubSeq(CcNamePool, 1, m)] :
        tn \in {None, "B"}, att \in SeqsUpTo(Paths, MaxAttach),
        ct \in {None, "html"}, k \in 0..MaxCc, m \in 0..MaxCc}
    \cup {NoArgv}

\* parser.parse_args(): the namespace, with the declared defaults
Namespace(a) ==
    [from_email |-> "a@x", from_name |-> "A", to_email |-> "b@x",
     to_name |-> a.to_name, subject |-> "S", attachment |-> a.attachment,
     content_type |-> IF a.content_type = None THEN "plain"
                      ELSE a.content_type,
     cc_email |-> a.cc_email, cc_name |-> a.cc_name]

\* faulty variant: only more names than addresses is rejected
ValidCcOnlyExcessNames(cc_email, cc_name) == ~(Len(cc_name) > Len(cc_email))

\* "Validating repeated arguments": FALSE when parser.error is called
ValidCc(cc_email, cc_name) ==
    ~(Len(cc_name) > 0 /\ Len(cc_email) # Len(cc_name))

\* main, first statement: args = parse_arguments()
ParseArguments ==
    /\ pc = "parse_arguments"
    /\ \E a \in Argvs :
        /\ argv' = a
        /\ IF ~a.required THEN
               /\ Exit(2, <<"usage", "the following arguments are required">>)
               /\ args' = args
           ELSE IF ~ValidCc(a.cc_email, a.cc_name) THEN
               /\ Exit(2, <<"usage", "The number of --cc-email and --cc-name entries must match.">>)
               /\ args' = args
           ELSE
               /\ args' = Namespace(a)
               /\ pc' = "read_stdin"
               /\ UNCHANGED <<exit_status, stderr>>
    /\ UNCHANGED <<environ, fs, content, destination, msg, att_i, conn,
                   pending, sent, trace>>
    /\ UNCHANGED query_vars

\* main, second statement: the whole of standard input, decoded
ReadStdin ==
    /\ pc = "read_stdin"
    /\ \E text \in StdinTexts :
        /\ content' = text
        /\ trace' = Append(trace, Ev("stdin", "", TRUE))
    /\ pc' = "resolve_credentials"
    /\ UNCHANGED <<environ, fs, argv, args, destination, msg, att_i, conn,
                   pending, sent, exit_status, stderr>>
    /\ UNCHANGED query_vars

RECURSIVE FirstMissingFrom(_, _)
FirstMissingFrom(env, names) ==
    IF names = <<>> THEN None
    ELSE IF Head(names) \notin env THEN Head(names)
    ELSE FirstMissingFrom(env, Tail(names))

\* faulty variant: the diagnostic always names the first variable
FirstMissingAlwaysServer(env) ==
    IF EnvNames \subseteq env THEN None ELSE "SMTP_SERVER"

\* faulty variant: SMTP_PASSWORD is not looked up
FirstMissingSkipsPassword(env) ==
    FirstMissingFrom(env, SubSeq(EnvLookupOrder, 1, 2))

\* the three os.environ[...] lookups in order: the name whose lookup raises
\* KeyError, None when all three are present
FirstMissing(env) == FirstMissingFrom(env, EnvLookupOrder)

\* send_mail: the try block around the environment lookups
ResolveCredentials ==
    /\ pc = "resolve_credentials"
    /\ IF FirstMissing(environ) # None THEN
           Exit(1, <<"Unable to find ", FirstMissing(environ),
                     " environment variable">>)
       ELSE
           /\ pc' = "build_message"
           /\ UNCHANGED <<exit_status, stderr>>
    /\ UNCHANGED <<environ, fs, argv, args, content, destination, msg, att_i,
                   conn, pending, sent, trace>>
    /\ UNCHANGED query_vars

\* faulty variant: the CC addresses join the envelope
DestinationWithCc(a) == <<a.from_email, a.to_email>> \o a.cc_email

\* destination = [args.from_email, args.to_email]
Destination(a) == <<a.from_email, a.to_email>>

\* the value assigned to msg['Cc']
CcHeader(a) ==
    LET pairs == Zip(a.cc_email, a.cc_name)
    IN  Join([i \in 1..Len(pairs) |->
                 \* for name, email in zip(args.cc_email, args.cc_name)
                 LET name == pairs[i][1]
                     email == pairs[i][2]
                 IN  formataddr(HeaderStr(name), email)], ",")

\* the headers set on the MIMEMultipart message, in order
Headers(a) ==
    << <<"Subject", <<a.subject>> >>,
       <<"From", formataddr(HeaderStr(a.from_name), a.from_email)>>,
       <<"To", formataddr(HeaderStr(a.to_name), a.to_email)>>,
       <<"Cc", CcHeader(a)>> >>

\* send_mail: envelope list, headers and the body part
BuildMessage ==
    /\ pc = "build_message"
    /\ destination' = Destination(args)
    /\ msg' = [headers |-> Headers(args),
               parts |-> <<MIMEText(content, args.content_type, "utf-8")>>]
    /\ att_i' = 1
    /\ pc' = IF Len(args.attachment) = 0 THEN "connect" ELSE "attach"
    /\ UNCHANGED <<environ, fs, argv, args, content, conn, pending, sent,
                   trace, exit_status, stderr>>
    /\ UNCHANGED query_vars

\* send_mail: one iteration of the attachment loop
AttachFile ==
    /\ pc = "attach"
    /\ LET attachment_name == args.attachment[att_i]
       IN  IF fs[attachment_name] = Missing THEN
               /\ trace' = Append(trace, Ev("open", attachment_name, FALSE))
               /\ Exit(1, <<"Traceback", "FileNotFoundError">>)
               /\ UNCHANGED <<msg, att_i>>
           ELSE
               /\ trace' = Append(trace, Ev("open", attachment_name, TRUE))
               /\ msg' = [msg EXCEPT !.parts =
                             Append(@, AttachmentPart(attachment_name,
                                                      fs[attachment_name]))]
               /\ att_i' = att_i + 1
               /\ pc' = IF att_i' > Len(args.attachment) THEN "connect"
                        ELSE "attach"
               /\ UNCHANGED <<exit_status, stderr>>
    /\ UNCHANGED <<environ, fs, argv, args, content, destination, conn,
                   pending, sent>>
    /\ UNCHANGED query_vars

\* conn = SMTP(smtp_server): the constructor connects
Connect ==
    /\ pc = "connect"
    /\ \E ok \in BOOLEAN :
        /\ trace' = Append(trace, Ev("connect", "", ok))
        /\ IF ok THEN
               /\ conn' = "open"
               /\ pc' = "login"
               /\ UNCHANGED <<exit_status, stderr>>
           ELSE
               /\ conn' = conn
               /\ Exit(1, <<"Traceback", "connect failed">>)
    /\ UNCHANGED <<environ, fs, argv, args, content, destination, msg, att_i,
                   pending, sent>>
    /\ UNCHANGED query_vars

\* conn.login(username, password), outside the try statement
Login ==
    /\ pc = "login"
    /\ \E ok \in BOOLEAN :
        /\ trace' = Append(trace, Ev("login", "", ok))
        /\ IF ok THEN
               /\ pc' = "sendmail"
               /\ UNCHANGED <<exit_status, stderr>>
           ELSE
               Exit(1, <<"Traceback", "SMTPAuthenticationError">>)
    /\ UNCHANGED <<environ, fs, argv, args, content, destination, msg, att_i,
                   conn, pending, sent>>
    /\ UNCHANGED query_vars

\* faulty variant: no finally clause, a failure exits at once
SendmailOutcomeNoFinally(ok, diag) ==
    IF ok THEN [pc |-> "quit", pending |-> <<>>,
                exit_status |-> NoStatus, stderr |-> <<>>]
    ELSE [pc |-> "exit", pending |-> <<>>,
          exit_status |-> 1, stderr |-> diag]

\* try / except Exception / finally: whatever sendmail does, control goes
\* to the finally clause; a failure leaves sys.exit(diag) in flight
SendmailOutcome(ok, diag) ==
    [pc |-> "quit", pending |-> IF ok THEN <<>> ELSE diag,
     exit_status |-> NoStatus, stderr |-> <<>>]

\* conn.sendmail(args.from_email, destination, msg.as_string())
Sendmail ==
    /\ pc = "sendmail"
    /\ \E ok \in BOOLEAN :
        LET out == SendmailOutcome(ok,
                       <<"mail to f", args.to_email, " failed; ", "exc">>)
        IN  /\ trace' = Append(trace, Ev("sendmail", "", ok))
            /\ sent' = Append(sent, [from_addr |-> args.from_email,
                                     to_addrs |-> destination, msg |-> msg])
            /\ pc' = out.pc
            /\ pending' = out.pending
            /\ exit_status' = out.exit_status
            /\ stderr' = out.stderr
    /\ UNCHANGED <<environ, fs, argv, args, content, destination, msg, att_i,
                   conn>>
    /\ UNCHANGED query_vars

\* faulty variant: the exit in flight is lost after quit
QuitResultSwallows(ok, pend) ==
    IF ~ok THEN [exit_status |-> 1,
                 stderr |-> <<"Traceback", "SMTPServerDisconnected">>]
    ELSE [exit_status |-> 0, stderr |-> <<>>]

\* how the process ends after the finally clause: an exception raised by
\* quit, else the exit in flight, else a normal return from main
QuitResult(ok, pend) ==
    IF ~ok THEN [exit_status |-> 1,
                 stderr |-> <<"Traceback", "SMTPServerDisconnected">>]
    ELSE IF pend # <<>> THEN [exit_status |-> 1, stderr |-> pend]
    ELSE [exit_status |-> 0, stderr |-> <<>>]

\* finally: conn.quit(), then the end of send_mail and of main
Quit ==
    /\ pc = "quit"
    /\ \E ok \in BOOLEAN :
        /\ trace' = Append(trace, Ev("quit", "", ok))
        /\ conn' = "closed"
        /\ Exit(QuitResult(ok, pending).exit_status,
                QuitResult(ok, pending).stderr)
    /\ pending' = <<>>
    /\ UNCHANGED <<environ, fs, argv, args, content, destination, msg, att_i,
                   sent>>
    /\ UNCHANGED query_vars

QueryIdle ==
    /\ q_pc = "idle"
    /\ q_argv = [model |-> <<>>, max_tokens |-> <<>>, int_ok |-> TRUE]
    /\ q_args = [model |-> "", max_tokens |-> 0]
    /\ q_stdin = <<>>
    /\ user_prompt = <<>>
    /\ requests = <<>>
    /\ completion = <<>>
    /\ response = <<>>
    /\ stdout = <<>>
    /\ q_exit = NoStatus

Init ==
    /\ pc = "parse_arguments"
    /\ environ \in SUBSET EnvNames
    /\ fs \in [Paths -> FileContents \cup {Missing}]
    /\ argv = NoArgv
    /\ args = NoArgs
    /\ content = <<>>
    /\ destination = <<>>
    /\ msg = NoMsg
    /\ att_i = 0
    /\ conn = "none"
    /\ pending = <<>>
    /\ sent = <<>>
    /\ trace = <<>>
    /\ exit_status = NoStatus
    /\ stderr = <<>>
    /\ QueryIdle

Next ==
    \/ ParseArguments
    \/ ReadStdin
    \/ ResolveCredentials
    \/ BuildMessage
    \/ AttachFile
    \/ Connect
    \/ Login
    \/ Sendmail
    \/ Quit

Spec == Init /\ [][Next]_vars

----------------------------------------------------------------------------
(* query-ai.py *)

DefaultModel == "gpt-4o"
DefaultMaxTokens == 150

\* code points: space, line feed, tab
Whitespace == {32, 10, 9}
PromptChars == {32, 97}
ResponseTexts == {<<97>>, <<32, 97, 10>>, <<10>>}

RECURSIVE LStrip(_)
LStrip(s) ==
    IF s # <<>> /\ Head(s) \in Whitespace THEN LStrip(Tail(s)) ELSE s

RECURSIVE RStrip(_)
RStrip(s) ==
    IF s # <<>> /\ s[Len(s)] \in Whitespace
    THEN RStrip(SubSeq(s, 1, Len(s) - 1)) ELSE s

\* str.strip()
Strip(s) == RStrip(LStrip(s))

QArgvs ==
    [model : {<<>>, <<"X">>}, max_tokens : {<<>>, <<1>>}, int_ok : BOOLEAN]

\* faulty variant: the model argument is ignored
ChatRequestDefaultModel(prompt, model, max_tokens) ==
    [messages |-> << [role |-> "user", content |-> prompt] >>,
     model |-> DefaultModel]

\* the arguments of client.chat.completions.create in query_openai
ChatRequest(prompt, model, max_tokens) ==
    [messages |-> << [role |-> "user", content |-> prompt] >>,
     model |-> model]

QExit(status) ==
    /\ q_pc' = "exit"
    /\ q_exit' = status

\* __main__: argument parsing
QParseArgs ==
    /\ q_pc = "parse_args"
    /\ \E a \in QArgvs :
        /\ q_argv' = a
        /\ IF a.max_tokens # <<>> /\ ~a.int_ok THEN
               /\ QExit(2)
               /\ q_args' = q_args
           ELSE
               /\ q_args' = [model |-> IF a.model = <<>> THEN DefaultModel
                                       ELSE a.model[1],
                             max_tokens |-> IF a.max_tokens = <<>>
                                            THEN DefaultMaxTokens
                                            ELSE a.max_tokens[1]]
               /\ q_pc' = "read_stdin"
               /\ q_exit' = q_exit
    /\ UNCHANGED <<q_stdin, user_prompt, requests, completion, response,
                   stdout>>
    /\ UNCHANGED mail_vars

\* user_prompt = sys.stdin.read().strip()
QReadStdin ==
    /\ q_pc = "read_stdin"
    /\ \E text \in SeqsUpTo(PromptChars, MaxPromptLen) :
        /\ q_stdin' = text
        /\ user_prompt' = Strip(text)
    /\ q_pc' = "query_openai"
    /\ UNCHANGED <<q_argv, q_args, requests, completion, response, stdout,
                   q_exit>>
    /\ UNCHANGED mail_vars

\* response = query_openai(user_prompt, args.model, args.max_tokens)
QueryOpenAI ==
    /\ q_pc = "query_openai"
    /\ requests' = Append(requests,
                     ChatRequest(user_prompt, q_args.model, q_args.max_tokens))
    /\ \/ \* the API call raises: uncaught, the process ends with a traceback
          /\ QExit(1)
          /\ UNCHANGED <<completion, response>>
       \/ \E k \in 1..MaxChoices :
          \E choices \in [1..k -> ResponseTexts] :
            /\ completion' = choices
            /\ response' = Strip(choices[1])
            /\ q_pc' = "print"
            /\ q_exit' = q_exit
    /\ UNCHANGED <<q_argv, q_args, q_stdin, user_prompt, stdout>>
    /\ UNCHANGED mail_vars

\* print(response), then the end of the script
QPrint ==
    /\ q_pc = "print"
    /\ stdout' = response \o <<10>>
    /\ QExit(0)
    /\ UNCHANGED <<q_argv, q_args, q_stdin, user_prompt, requests, completion,
                   response>>
    /\ UNCHANGED mail_vars

MailIdle ==
    /\ pc = "idle"
    /\ environ = {}
    /\ fs = [p \in Paths |-> Missing]
    /\ argv = NoArgv
    /\ args = NoArgs
    /\ content = <<>>
    /\ destination = <<>>
    /\ msg = NoMsg
    /\ att_i = 0
    /\ conn = "none"
    /\ pending = <<>>
    /\ sent = <<>>
    /\ trace = <<>>
    /\ exit_status = NoStatus
    /\ stderr = <<>>

InitQuery ==
    /\ q_pc = "parse_args"
    /\ q_argv = [model |-> <<>>, max_tokens |-> <<>>, int_ok |-> TRUE]
    /\ q_args = [model |-> "", max_tokens |-> 0]
    /\ q_stdin = <<>>
    /\ user_prompt = <<>>
    /\ requests = <<>>
    /\ completion = <<>>
    /\ response = <<>>
    /\ stdout = <<>>
    /\ q_exit = NoStatus
    /\ MailIdle

NextQuery ==
    \/ QParseArgs
    \/ QReadStdin
    \/ QueryOpenAI
    \/ QPrint

SpecQuery == InitQuery /\ [][NextQuery]_vars

----------------------------------------------------------------------------
(* Vocabulary of the properties *)

HasEv(op) == \E i \in DOMAIN trace : trace[i].op = op
HasEvOk(op, ok) == \E i \in DOMAIN trace : trace[i].op = op /\ trace[i].ok = ok
Count(op) == Cardinality({i \in DOMAIN trace : trace[i].op = op})

MissingEnv == EnvNames \ environ
CcMismatch(a) == Len(a.cc_name) > 0 /\ Len(a.cc_email) # Len(a.cc_name)
Parsed == pc # "parse_arguments"

EnvDiagnostic == Len(stderr) = 3 /\ stderr[1] = "Unable to find "
UsageDiagnostic == Len(stderr) = 2 /\ stderr[1] = "usage"
CcMismatchDiagnostic ==
    UsageDiagnostic
    /\ stderr[2] = "The number of --cc-email and --cc-name entries must match."

\* the message is fully built: the attachment loop has ended
MessageComplete ==
    \/ pc \in {"connect", "login", "sendmail", "quit"}
    \/ pc = "exit" /\ HasEv("connect")

HeaderOf(m, name) ==
    m.headers[CHOOSE i \in DOMAIN m.headers : m.headers[i][1] = name][2]

\* what a reader of the message obtains from a base64 payload
RECURSIVE Base64Decode(_)
Base64Decode(s) ==
    IF Len(s) < 4 THEN <<>>
    ELSE LET b1 == s[1] * 4 + (s[2] \div 16)
             b2 == (s[2] % 16) * 16 + (s[3] \div 4)
             b3 == (s[3] % 4) * 64 + s[4]
         IN  (IF s[3] = Pad THEN <<b1>>
              ELSE IF s[4] = Pad THEN <<b1, b2>>
              ELSE <<b1, b2, b3>>)
             \o Base64Decode(SubSeq(s, 5, Len(s)))

RECURSIVE Utf8Decode(_)
Utf8Decode(bytes) ==
    IF bytes = <<>> THEN <<>>
    ELSE IF bytes[1] < 128 THEN <<bytes[1]>> \o Utf8Decode(Tail(bytes))
    ELSE IF bytes[1] >= 192 /\ Len(bytes) >= 2 THEN
        <<(bytes[1] - 192) * 64 + (bytes[2] - 128)>>
        \o Utf8Decode(SubSeq(bytes, 3, Len(bytes)))
    ELSE <<>>

\* c is s without its leading and trailing whitespace
IsStripOf(c, s) ==
    \E i \in 0..Len(s) : \E j \in 0..Len(s) :
        /\ i + Len(c) + j = Len(s)
        /\ c = SubSeq(s, i + 1, Len(s) - j)
        /\ \A k \in 1..i : s[k] \in Whitespace
        /\ \A k \in (Len(s) - j + 1)..Len(s) : s[k] \in Whitespace
        /\ (c # <<>> => c[1] \notin Whitespace /\ c[Len(c)] \notin Whitespace)

----------------------------------------------------------------------------
(* Properties *)

\* C1: whenever one or more of SMTP_SERVER, SMTP_USERNAME, SMTP_PASSWORD is
\* missing, no SMTP connection is ever opened, send_mail never gets past the
\* environment lookups, and once send_mail has run the process has exited
\* with a non-zero status and a diagnostic naming a variable that is missing.
C1_MissingEnvIsFatal ==
    MissingEnv # {} =>
        /\ ~HasEv("connect")
        /\ pc \notin {"build_message", "attach", "connect", "login",
                      "sendmail", "quit"}
        /\ (pc = "exit" => exit_status # NoStatus /\ exit_status # 0)
        /\ (pc = "exit" /\ HasEv("stdin") =>
               /\ EnvDiagnostic
               /\ stderr[2] \in MissingEnv
               /\ exit_status = 1)

C1_Witness ==
    /\ pc = "exit"
    /\ EnvDiagnostic
    /\ MissingEnv = {"SMTP_USERNAME", "SMTP_PASSWORD"}
    /\ stderr[2] = "SMTP_USERNAME"

\* C2: quit is never invoked more than once, it is invoked only after the
\* sendmail call, and every execution that ends after a successful login
\* has invoked it exactly once, whether sendmail succeeded or failed.
C2_QuitExactlyOnceAfterSendmail ==
    /\ Count("quit") <= 1
    /\ \A j \in DOMAIN trace :
           trace[j].op = "quit" =>
               \E i \in 1..(j - 1) : trace[i].op = "sendmail"
    /\ (pc = "exit" /\ HasEvOk("login", TRUE) =>
           Count("sendmail") = 1 /\ Count("quit") = 1)

C2_Witness ==
    /\ pc = "exit"
    /\ HasEvOk("sendmail", FALSE)
    /\ Count("quit") = 1

\* C3: every execution that opened an SMTP connection has invoked quit on it
\* by the time the process has terminated, whatever failed in the session.
C3_OpenedConnectionIsClosed ==
    pc = "exit" /\ HasEvOk("connect", TRUE) =>
        HasEv("quit") /\ conn = "closed"

\* C4 as stated: an execution that ends in a configuration error (missing
\* environment variable, mismatched CC counts) has read neither standard
\* input nor an attachment file, has opened no connection and exits non-zero.
C4_ConfigErrorBeforeAnyIO ==
    pc = "exit" /\ (EnvDiagnostic \/ CcMismatchDiagnostic) =>
        /\ ~HasEv("stdin")
        /\ ~HasEv("open")
        /\ ~HasEv("connect")
        /\ exit_status # 0

\* C4 amended: with a configuration error in the inputs, no attachment file
\* is opened, no connection is opened and the process exits non-zero; a CC
\* mismatch ends the process before standard input is read, whereas a missing
\* environment variable is reported after standard input has been read.
C4_ConfigErrorBeforeFilesAndNetwork ==
    /\ (Parsed /\ argv.required /\ (CcMismatch(argv) \/ MissingEnv # {}) =>
           /\ ~HasEv("open")
           /\ ~HasEv("connect")
           /\ (pc = "exit" => exit_status # NoStatus /\ exit_status # 0)
           /\ (CcMismatch(argv) => ~HasEv("stdin") /\ pc = "exit")
           /\ pc \in {"read_stdin", "resolve_credentials", "exit"})
    /\ (pc = "exit" /\ CcMismatchDiagnostic => ~HasEv("stdin"))
    /\ (pc = "exit" /\ EnvDiagnostic => HasEv("stdin") /\ ~HasEv("open"))

C4_Witness ==
    /\ pc = "exit"
    /\ EnvDiagnostic
    /\ HasEv("stdin")
    /\ Len(argv.attachment) > 0

\* C5: if at least one --cc-name is given and the numbers of --cc-name and
\* --cc-email entries differ, the process has exited with a usage error
\* (status 2) as soon as the arguments are parsed, with no connection opened
\* and no sendmail attempted.
C5_CcMismatchIsUsageError ==
    Parsed /\ argv.required /\ CcMismatch(argv) =>
        /\ pc = "exit"
        /\ exit_status = 2
        /\ UsageDiagnostic
        /\ trace = <<>>
        /\ sent = <<>>

C5_Witness ==
    /\ pc = "exit"
    /\ Len(argv.cc_email) = 2
    /\ Len(argv.cc_name) = 1
    /\ CcMismatchDiagnostic

\* C6: once the headers are built, the Cc header is the comma-joined list
\* with one entry per --cc-email, in order, the i-th entry having the i-th
\* --cc-name as display name and the i-th --cc-email as address (empty value
\* for an empty CC list).
C6_CcHeaderPairsNamesWithEmails ==
    MessageComplete =>
        HeaderOf(msg, "Cc") =
            Join([i \in 1..Len(args.cc_email) |->
                     formataddr(IF i <= Len(args.cc_name)
                                THEN args.cc_name[i] ELSE "",
                                args.cc_email[i])], ",")

\* C7: every sendmail call is given exactly <<From address, To address>> as
\* its envelope recipient list, and none of the --cc-email addresses.
C7_EnvelopeIsFromThenTo ==
    \A i \in DOMAIN sent :
        /\ sent[i].to_addrs = <<args.from_email, args.to_email>>
        /\ \A k \in DOMAIN argv.cc_email :
               \A r \in DOMAIN sent[i].to_addrs :
                   sent[i].to_addrs[r] # argv.cc_email[k]

C7_Witness ==
    /\ Len(sent) = 1
    /\ Len(argv.cc_email) = 2
    /\ Len(argv.cc_name) = 2

C9_ExitStatusReflectsOutcome ==
    /\ Count("sendmail") <= 1
    /\ Len(sent) = Count("sendmail")
    /\ (pc = "exit" => exit_status \in {0, 1, 2})
    /\ (pc = "exit" /\ exit_status = 0 =>
           Count("sendmail") = 1 /\ HasEvOk("sendmail", TRUE))
    /\ (pc = "exit" /\ (\/ HasEvOk("connect", FALSE)
                        \/ HasEvOk("login", FALSE)
                        \/ HasEvOk("sendmail", FALSE)
                        \/ HasEvOk("open", FALSE)
                        \/ MissingEnv # {}) =>
           exit_status # 0)

C9_Witness ==
    /\ pc = "exit"
    /\ exit_status = 0
    /\ Len(args.attachment) = 1

\* C10: the complete message has 1 + n parts for n attachments: first the
\* text part with the configured subtype (plain by default), charset utf-8
\* and content equal to standard input, then one application/octet-stream
\* part per attachment, in order, whose decoded payload is the file's bytes
\* and whose disposition carries the path as given.
C10_PartsAreBodyThenAttachments ==
    MessageComplete =>
        LET n == Len(argv.attachment)
        IN  /\ Len(msg.parts) = 1 + n
            /\ msg.parts[1].content_type =
                   <<"text", IF argv.content_type = None THEN "plain"
                             ELSE argv.content_type>>
            /\ msg.parts[1].charset = "utf-8"
            /\ msg.parts[1].disposition = <<>>
            /\ Utf8Decode(Base64Decode(msg.parts[1].payload)) = content
            /\ \A i \in 1..n :
                   /\ msg.parts[i + 1].content_type =
                          <<"application", "octet-stream">>
                   /\ Base64Decode(msg.parts[i + 1].payload) =
                          fs[argv.attachment[i]]
                   /\ msg.parts[i + 1].disposition =
                          <<"attachment; filename=", argv.attachment[i]>>
            /\ \A i \in DOMAIN sent : sent[i].msg = msg

C10_Witness ==
    /\ Len(sent) = 1
    /\ argv.attachment = <<"dir/b.bin", "file.bin">>
    /\ fs["dir/b.bin"] = <<255, 0>>
    /\ fs["file.bin"] = <<1, 2, 254>>
    /\ content = <<233, 10>>
    /\ argv.content_type = "html"

====
